---- MODULE Spec2Model ----
(***************************************************************************)
(* A model of server.py: the two tools registered on the FastMCP server,   *)
(* echo and get_counts, the credential extraction both perform on the      *)
(* inbound request, and the single backend POST of get_counts.             *)
(*                                                                         *)
(* Python values are modelled as follows.                                  *)
(*   str            a TLA+ string (Len, \o and SubSeq act on strings)      *)
(*   Optional[str]  None is <<>>, a string s is <<s>>                      *)
(*   repeat         [kind, val]: kind is the Python type of the argument   *)
(*                  ("int", "bool", "float", "str"), val its numeric value *)
(*   debug_info     the set of keys the dictionary holds                   *)
(*   decoded JSON   the repr() of the decoded Python object, None for null *)
(***************************************************************************)
EXTENDS Integers, Sequences, FiniteSets, TLC

VARIABLES phase, req, bearer_token, result, posts, backend, trace, outbox

vars == <<phase, req, bearer_token, result, posts, backend, trace, outbox>>

---------------------------------------------------------------------------
(* Python primitives used by the handlers *)

\* F applied to the value of v, which is evaluated once
Bind(v, F(_)) == CHOOSE r \in {F(x) : x \in {v}} : TRUE

None == <<>>

Some(s) == <<s>>

\* truthiness of an Optional[str]: None and "" are falsy
Truthy(o) == o # None /\ o[1] # ""

\* a or b
PyOr(a, b) == Bind(a, LAMBDA x : IF Truthy(x) THEN x ELSE b)

\* s.startswith(p)
StartsWith(s, p) == Len(s) >= Len(p) /\ SubSeq(s, 1, Len(p)) = p

\* s[n:]
DropPrefix(s, n) == IF n >= Len(s) THEN "" ELSE SubSeq(s, n + 1, Len(s))

\* s[:n]
TakePrefix(s, n) == IF n >= Len(s) THEN s ELSE SubSeq(s, 1, n)

UpperLetters == "ABCDEFGHIJKLMNOPQRSTUVWXYZ"

LowerLetters == "abcdefghijklmnopqrstuvwxyz"

\* the lower-case letter of each upper-case letter
LowerOf ==
    [c \in {SubSeq(UpperLetters, i, i) : i \in 1..Len(UpperLetters)} |->
        LET i == CHOOSE k \in 1..Len(UpperLetters) : SubSeq(UpperLetters, k, k) = c
        IN  SubSeq(LowerLetters, i, i)]

LowerChar(c) == IF c \in DOMAIN LowerOf THEN LowerOf[c] ELSE c

RECURSIVE LowerFrom(_, _)
\* the letters of s from position i on, in lower case
LowerFrom(s, i) ==
    IF i > Len(s) THEN ""
    ELSE LowerChar(SubSeq(s, i, i)) \o LowerFrom(s, i + 1)

\* s.lower()
Lower(s) == LowerFrom(s, 1)

DecimalDigits == "0123456789"

RECURSIVE NatStr(_)
NatStr(n) ==
    IF n < 10 THEN SubSeq(DecimalDigits, n + 1, n + 1)
    ELSE NatStr(n \div 10) \o SubSeq(DecimalDigits, (n % 10) + 1, (n % 10) + 1)

IntStr(n) == IF n < 0 THEN "-" \o NatStr(-n) ELSE NatStr(n)

\* f"{repeat}"
PyStr(v) ==
    CASE v.kind = "bool"  -> (IF v.val = 0 THEN "False" ELSE "True")
      [] v.kind = "float" -> IntStr(v.val) \o ".0"
      [] OTHER            -> IntStr(v.val)

\* f"{bearer_token}" of an Optional[str]
PyFormat(o) == IF o = None THEN "None" ELSE o[1]

RECURSIVE Join(_, _, _)
\* sep.join([item] * n)
Join(sep, item, n) ==
    IF n <= 0 THEN ""
    ELSE IF n = 1 THEN item
    ELSE item \o sep \o Join(sep, item, n - 1)

---------------------------------------------------------------------------
(* Request metadata: ctx.request_context.request *)

\* A request handle is [kind, headers, err]:
\*   "ctx_fault"      reading ctx.request_context.request raises err
\*   "none"           the request is None (no HTTP request behind the call)
\*   "no_headers"     the request object has no headers attribute
\*   "headers_fault"  request.headers.get raises err
\*   "http"           an HTTP request with the header list headers
Header(name, value) == [name |-> name, value |-> value]

HttpRequest(hs) == [kind |-> "http", headers |-> hs, err |-> ""]

BareRequest(kind) == [kind |-> kind, headers |-> <<>>, err |-> ""]

FaultyRequest(kind, err) == [kind |-> kind, headers |-> <<>>, err |-> err]

\* HeadersGet with the names compared letter for letter
HeadersGetExact(headers, key) ==
    Bind({i \in 1..Len(headers) : headers[i].name = key},
         LAMBDA hits :
            IF hits = {} THEN None
            ELSE Some(headers[CHOOSE i \in hits : \A j \in hits : i <= j].value))

\* request.headers.get(key): the value of the first header whose name equals
\* key whatever the letter case, None without one
HeadersGet(headers, key) ==
    Bind({i \in 1..Len(headers) : Lower(headers[i].name) = Lower(key)},
         LAMBDA hits :
            IF hits = {} THEN None
            ELSE Some(headers[CHOOSE i \in hits : \A j \in hits : i <= j].value))

\* request.headers.get('authorization') or request.headers.get('Authorization')
LookupAuthorization(headers) ==
    PyOr(HeadersGet(headers, "authorization"), HeadersGet(headers, "Authorization"))

\* request and hasattr(request, 'headers')
HasHeaders(request) == request.kind \in {"http", "headers_fault"}

BearerPrefix == "Bearer "

BearerPrefixLen == 7

NoHeaderFound == "No Authorization header found"

NoHeadersAttribute == "Request object has no headers attribute"

NonBearerFormat == "Non-Bearer token format"

---------------------------------------------------------------------------
(* echo *)

MinRepeat == 1

MaxRepeat == 10

\* isinstance(repeat, int): bool is a subclass of int
IsInstanceInt(v) == v.kind \in {"int", "bool"}

\* RepeatRejected with the upper bound off by one
RepeatRejectedOffByOne(repeat) ==
    \/ ~IsInstanceInt(repeat)
    \/ repeat.val < MinRepeat
    \/ repeat.val >= MaxRepeat

\* not isinstance(repeat, int) or repeat < 1 or repeat > 10
RepeatRejected(repeat) ==
    \/ ~IsInstanceInt(repeat)
    \/ repeat.val < MinRepeat
    \/ repeat.val > MaxRepeat

\* the validation at the head of echo: the message of the ValueError it
\* raises, None when both checks pass
EchoValidation(message, repeat) ==
    IF message = "" THEN Some("Message cannot be empty")
    ELSE IF RepeatRejected(repeat)
         THEN Some("Repeat must be an integer between 1 and 10")
         ELSE None

\* EchoResponse with the copies joined by a space
EchoResponseSpaces(message, repeat) == Join(" ", message, repeat.val)

\* "\n".join([message] * repeat)
EchoResponse(message, repeat) == Join("\n", message, repeat.val)

\* f"Echo ({repeat}x): {echo_response}"
EchoMessage(message, repeat) ==
    "Echo (" \o PyStr(repeat) \o "x): " \o EchoResponse(message, repeat)

\* the header lookup of echo: auth_header and the debug_info keys set so far
EchoLookup(request) ==
    IF HasHeaders(request)
    THEN Bind(LookupAuthorization(request.headers),
              LAMBDA found :
                 IF ~Truthy(found)
                 THEN [auth_header |-> Some(NoHeaderFound),
                       debug |-> {"request_available", "headers_available",
                                  "all_headers"}]
                 ELSE [auth_header |-> found,
                       debug |-> {"request_available", "headers_available",
                                  "found_auth_header"}])
    ELSE [auth_header |-> Some(NoHeadersAttribute),
          debug |-> {"request_available", "request_type"}]

\* auth_header.startswith('Bearer ')
IsBearer(auth_header) == Truthy(auth_header) /\ StartsWith(auth_header[1], BearerPrefix)

\* StripBearer that leaves the space of the prefix in the token
StripBearerShort(value) == DropPrefix(value, BearerPrefixLen - 1)

\* auth_header[7:]
StripBearer(value) == DropPrefix(value, BearerPrefixLen)

\* the bearer branch of echo: bearer_token and the debug_info key it adds
EchoBearer(auth_header) ==
    IF IsBearer(auth_header)
    THEN [bearer_token |-> Some(StripBearer(auth_header[1])),
          debug |-> {"token_extracted"}]
    ELSE IF Truthy(auth_header)
            /\ auth_header[1] \notin {NoHeaderFound, NoHeadersAttribute}
         THEN [bearer_token |-> Some(NonBearerFormat), debug |-> {"non_bearer_format"}]
         ELSE [bearer_token |-> None, debug |-> {}]

\* the try/except block of echo: the credential information of a request
EchoCredential(request) ==
    IF request.kind = "ctx_fault"
    THEN [full_header |-> Some("Error accessing headers: " \o request.err),
          bearer_token |-> None,
          debug_info |-> {"error"}]
    ELSE IF request.kind = "headers_fault"
    THEN [full_header |-> Some("Error accessing headers: " \o request.err),
          bearer_token |-> None,
          debug_info |-> {"request_available", "headers_available", "error"}]
    ELSE Bind(EchoLookup(request),
              LAMBDA looked :
                 LET bearer == EchoBearer(looked.auth_header)
                 IN  [full_header |-> looked.auth_header,
                      bearer_token |-> bearer.bearer_token,
                      debug_info |-> looked.debug \cup bearer.debug])

\* len(bearer_token) if bearer_token and bearer_token != "Non-Bearer token format" else 0
TokenLength(token) ==
    IF Truthy(token) /\ token[1] # NonBearerFormat
    THEN Len(token[1])
    ELSE 0

\* the outcome of one call of echo: the exception it raises or the dictionary
\* it returns
echo(request, message, repeat) ==
    LET invalid == EchoValidation(message, repeat)
    IN  IF invalid # None
        THEN [kind |-> "raise", exc |-> "ValueError", msg |-> invalid[1]]
        ELSE Bind(EchoCredential(request),
                  LAMBDA cred :
                     [kind |-> "return",
                      echo_message |-> EchoMessage(message, repeat),
                      full_header |-> cred.full_header,
                      bearer_token |-> cred.bearer_token,
                      token_length |-> TokenLength(cred.bearer_token),
                      debug_info |-> cred.debug_info,
                      repeat_count |-> repeat,
                      original_message |-> message])

---------------------------------------------------------------------------
(* get_counts *)

\* the defaults of the signature of get_counts; an Optional[List[str]] is
\* None or Some(list)
DefaultArgs ==
    [type |-> Some("Kubearmor"), view |-> Some("List"), cluster_id |-> None,
     workspace_id |-> 11, namespace |-> None, filters |-> None,
     from_time |-> 1730399520, to_time |-> 1751518034,
     log_type |-> Some("active"), search |-> Some(""),
     workload_type |-> None, workload_name |-> None]

\* x or []
OrEmptyList(o) == IF o = None \/ o[1] = <<>> THEN <<>> ELSE o[1]

\* the API request payload
Payload(args) ==
    [Type |-> args.type, View |-> args.view,
     ClusterID |-> OrEmptyList(args.cluster_id),
     WorkspaceID |-> args.workspace_id,
     Namespace |-> OrEmptyList(args.namespace),
     Filters |-> OrEmptyList(args.filters),
     FromTime |-> args.from_time, ToTime |-> args.to_time,
     LogType |-> args.log_type, Search |-> args.search,
     WorkloadType |-> OrEmptyList(args.workload_type),
     WorkloadName |-> OrEmptyList(args.workload_name)]

\* the bearer extraction of get_counts: the message of the fault it caught,
\* or the token it found
GetCountsToken(request) ==
    IF request.kind \in {"ctx_fault", "headers_fault"}
    THEN [fault |-> Some(request.err), bearer_token |-> None]
    ELSE IF HasHeaders(request)
    THEN Bind(LookupAuthorization(request.headers),
              LAMBDA auth_header :
                 [fault |-> None,
                  bearer_token |-> IF IsBearer(auth_header)
                                   THEN Some(StripBearer(auth_header[1]))
                                   ELSE None])
    ELSE [fault |-> None, bearer_token |-> None]

\* TokenMissing that lets an empty token through
TokenIsNone(token) == token = None

\* not bearer_token
TokenMissing(token) == ~Truthy(token)

\* f"Bearer {bearer_token}"
AuthorizationValue(token) == "Bearer " \o PyFormat(token)

\* the headers of the backend request
BackendHeaders(token) ==
    ("User-Agent" :> "Mozilla/5.0 (X11; Ubuntu; Linux x86_64; rv:139.0) Gecko/20100101 Firefox/139.0")
    @@ ("Accept" :> "*/*")
    @@ ("Accept-Language" :> "en-US,en;q=0.5")
    @@ ("Accept-Encoding" :> "gzip, deflate, br, zstd")
    @@ ("Referer" :> "https://app.dev.accuknox.com/")
    @@ ("Content-Type" :> "application/json")
    @@ ("Authorization" :> AuthorizationValue(token))
    @@ ("X-Tenant-Id" :> "11")
    @@ ("Origin" :> "https://app.dev.accuknox.com")
    @@ ("Connection" :> "keep-alive")
    @@ ("Sec-Fetch-Dest" :> "empty")
    @@ ("Sec-Fetch-Mode" :> "cors")
    @@ ("Sec-Fetch-Site" :> "same-site")
    @@ ("Priority" :> "u=4")
    @@ ("TE" :> "trailers")

ApiUrl == "https://cwpp.dev.accuknox.com/monitors/v1/alerts/events/count"

RequestTimeout == 30

\* client.post(api_url, json=payload, headers=headers, timeout=30.0)
Post(args, token) ==
    [url |-> ApiUrl, json |-> Payload(args), headers |-> BackendHeaders(token),
     timeout |-> RequestTimeout]

\* a dictionary holding the key "error" alone
ErrorOnly(msg) == [kind |-> "return", keys |-> {"error"}, error |-> Some(msg)]

\* what get_counts does before it awaits the backend: the dictionary it
\* returns at once, or the request it posts
GetCountsStart(request, args) ==
    Bind(GetCountsToken(request),
         LAMBDA got :
            IF got.fault # None
            THEN [returned |-> TRUE, bearer_token |-> got.bearer_token,
                  value |-> ErrorOnly("Failed to extract bearer token: "
                                      \o got.fault[1])]
            ELSE IF TokenMissing(got.bearer_token)
            THEN [returned |-> TRUE, bearer_token |-> got.bearer_token,
                  value |-> ErrorOnly("No Bearer token found in request headers")]
            ELSE [returned |-> FALSE, bearer_token |-> got.bearer_token,
                  post |-> Post(args, got.bearer_token)])

HttpOk == 200

\* IsSuccess that takes every 2xx status for a success
IsSuccess2xx(status) == status >= HttpOk /\ status < HttpOk + 100

\* response.status_code == 200
IsSuccess(status) == status = HttpOk

\* response.json(): the decoded body (None for null, else the repr of the
\* Python object), or the message of the JSONDecodeError
JsonDecode(text) ==
    CASE text = "null"  -> [ok |-> TRUE, value |-> None, msg |-> ""]
      [] text = "[1,2]" -> [ok |-> TRUE, value |-> Some("[1, 2]"), msg |-> ""]
      [] text = "{}"    -> [ok |-> TRUE, value |-> Some("{}"), msg |-> ""]
      [] text = "true"  -> [ok |-> TRUE, value |-> Some("True"), msg |-> ""]
      [] text = "17"    -> [ok |-> TRUE, value |-> Some("17"), msg |-> ""]
      [] OTHER -> [ok |-> FALSE, value |-> None,
                   msg |-> "Expecting value: line 1 column 1 (char 0)"]

TokenPreviewLen == 8

\* f"Bearer {bearer_token[:8]}..." if bearer_token else None
TokenUsed(token) ==
    IF Truthy(token)
    THEN Some("Bearer " \o TakePrefix(token[1], TokenPreviewLen) \o "...")
    ELSE None

\* the classes an exception class derives from, itself included
Ancestors(cls) ==
    CASE cls \in {"ConnectTimeout", "ReadTimeout", "WriteTimeout", "PoolTimeout"}
            -> {cls, "TimeoutException", "TransportError", "RequestError",
                "HTTPError", "Exception"}
      [] cls \in {"ConnectError", "ReadError", "WriteError", "CloseError"}
            -> {cls, "NetworkError", "TransportError", "RequestError",
                "HTTPError", "Exception"}
      [] cls \in {"RemoteProtocolError", "LocalProtocolError"}
            -> {cls, "ProtocolError", "TransportError", "RequestError",
                "HTTPError", "Exception"}
      [] cls \in {"ProxyError", "UnsupportedProtocol"}
            -> {cls, "TransportError", "RequestError", "HTTPError", "Exception"}
      [] cls \in {"DecodingError", "TooManyRedirects"}
            -> {cls, "RequestError", "HTTPError", "Exception"}
      [] cls = "JSONDecodeError" -> {cls, "ValueError", "Exception"}
      [] cls \in {"RuntimeError", "InvalidURL"} -> {cls, "Exception"}
      [] OTHER -> {cls}

\* isinstance(exception, base)
IsInstance(cls, base) == base \in Ancestors(cls)

\* ExceptClause with the RequestError clause ahead of the TimeoutException one
ExceptClauseRequestFirst(cls) ==
    IF IsInstance(cls, "RequestError") THEN "RequestError"
    ELSE IF IsInstance(cls, "TimeoutException") THEN "TimeoutException"
    ELSE IF IsInstance(cls, "Exception") THEN "Exception"
    ELSE "uncaught"

\* ExceptClause without the closing except Exception
ExceptClauseNoCatchAll(cls) ==
    IF IsInstance(cls, "TimeoutException") THEN "TimeoutException"
    ELSE IF IsInstance(cls, "RequestError") THEN "RequestError"
    ELSE "uncaught"

\* the except clause an exception of class cls lands in
ExceptClause(cls) ==
    IF IsInstance(cls, "TimeoutException") THEN "TimeoutException"
    ELSE IF IsInstance(cls, "RequestError") THEN "RequestError"
    ELSE IF IsInstance(cls, "Exception") THEN "Exception"
    ELSE "uncaught"

\* the outcome of get_counts when the body of its try block raises
GetCountsOnException(cls, msg) ==
    CASE ExceptClause(cls) = "TimeoutException"
            -> ErrorOnly("Request timeout - API took too long to respond")
      [] ExceptClause(cls) = "RequestError" -> ErrorOnly("Request failed: " \o msg)
      [] ExceptClause(cls) = "Exception" -> ErrorOnly("Unexpected error: " \o msg)
      [] OTHER -> [kind |-> "raise", exc |-> cls, msg |-> msg]

\* the outcome of get_counts when the backend answers
GetCountsOnResponse(args, token, status, text) ==
    LET decoded == JsonDecode(text)
    IN  IF IsSuccess(status) /\ ~decoded.ok
        THEN GetCountsOnException("JSONDecodeError", decoded.msg)
        ELSE [kind |-> "return",
              keys |-> {"status_code", "success", "data", "error",
                        "request_payload", "token_used"},
              status_code |-> status,
              success |-> IsSuccess(status),
              data |-> IF IsSuccess(status) THEN decoded.value ELSE None,
              error |-> IF ~IsSuccess(status) THEN Some(text) ELSE None,
              request_payload |-> Payload(args),
              token_used |-> TokenUsed(token)]

\* PostsAfterAttempt of a handler that posts its request again
PostsAfterRetry(ps) == ps \o ps

\* the requests issued once the attempt has ended, whatever its outcome: the
\* handler returns from the try block or from an except clause, and posts no more
PostsAfterAttempt(ps) == ps

---------------------------------------------------------------------------
(* The inputs of the model *)

RepeatBelow == 2

RepeatAbove == 12

Messages == {"", "x", "ab", "a\nb"}

IntRepeat(v) == [kind |-> "int", val |-> v]

\* repeat: int = 1
DefaultRepeat == IntRepeat(1)

RepeatValues ==
    {IntRepeat(v) : v \in (0 - RepeatBelow)..RepeatAbove}
    \cup {[kind |-> "bool", val |-> 0], [kind |-> "bool", val |-> 1],
          [kind |-> "float", val |-> 2], [kind |-> "str", val |-> 3]}

AuthNames == {"authorization", "Authorization", "AUTHORIZATION"}

AuthValues ==
    {"", "Bearer ", "Bearer abc123", "Bearer tok-0123456789", "Bearer  abc123",
     "Bearer " \o NonBearerFormat, "Basic xyz", "bearer abc123", "Bearerabc123",
     "BEARER abc123", NoHeaderFound, NoHeadersAttribute}

OtherHeader == Header("accept", "application/json")

Requests ==
    {FaultyRequest("ctx_fault", "No request context available"),
     FaultyRequest("headers_fault", "malformed header list"),
     BareRequest("none"), BareRequest("no_headers"),
     HttpRequest(<<>>), HttpRequest(<<OtherHeader>>),
     HttpRequest(<<Header("authorization", "Basic xyz"),
                   Header("Authorization", "Bearer abc123")>>)}
    \cup {HttpRequest(<<OtherHeader, Header(n, v)>>) : n \in AuthNames, v \in AuthValues}

ArgSets ==
    {DefaultArgs,
     [DefaultArgs EXCEPT !.type = Some("Host"), !.cluster_id = Some(<<"c1", "c2">>),
                         !.search = Some("nginx")],
     [DefaultArgs EXCEPT !.namespace = Some(<<>>), !.view = None]}

Statuses == {200, 201, 204, 401, 404, 500}

Bodies == {"", "boom", "null", "[1,2]", "{}", "17"}

BackendFaults ==
    {[cls |-> "ConnectTimeout", msg |-> "timed out"],
     [cls |-> "ReadTimeout", msg |-> "The read operation timed out"],
     [cls |-> "PoolTimeout", msg |-> ""],
     [cls |-> "ConnectError", msg |-> "[Errno -2] Name or service not known"],
     [cls |-> "ConnectError", msg |-> "[SSL: CERTIFICATE_VERIFY_FAILED] certificate verify failed"],
     [cls |-> "ReadError", msg |-> "[Errno 104] Connection reset by peer"],
     [cls |-> "RemoteProtocolError", msg |-> "Server disconnected without sending a response."],
     [cls |-> "TooManyRedirects", msg |-> "Exceeded maximum allowed redirects."],
     [cls |-> "RuntimeError", msg |-> "Event loop is closed"]}

---------------------------------------------------------------------------
(* The server: one invocation at a time *)

\* the tools the @mcp.tool() decorators register
Registry == {"echo", "get_counts"}

ToolNames == Registry \cup {"subtract"}

NoRequest ==
    [tool |-> "", request |-> BareRequest("none"), message |-> "",
     repeat |-> DefaultRepeat, args |-> DefaultArgs]

NoResult == [kind |-> "none"]

NoBackend == [kind |-> "none"]

\* what the framework hands to the transport for a handler's outcome
Serialize(r) ==
    IF r.kind = "raise"
    THEN [isError |-> TRUE, text |-> r.msg]
    ELSE [isError |-> FALSE, content |-> r]

Init ==
    /\ phase = "IDLE"
    /\ req = NoRequest
    /\ bearer_token = None
    /\ result = NoResult
    /\ posts = <<>>
    /\ backend = NoBackend
    /\ trace = <<>>
    /\ outbox = <<>>

\* the transport hands an invocation request to the server
Receive ==
    /\ phase = "IDLE"
    /\ \E tool \in ToolNames, request \in Requests, message \in Messages,
          repeat \in RepeatValues, args \in ArgSets :
          /\ tool # "echo" => message = "" /\ repeat = DefaultRepeat
          /\ tool # "get_counts" => args = DefaultArgs
          /\ req' = [tool |-> tool, request |-> request, message |-> message,
                     repeat |-> repeat, args |-> args]
    /\ phase' = "RECEIVED"
    /\ trace' = <<"RECEIVED">>
    /\ UNCHANGED <<bearer_token, result, posts, backend, outbox>>

\* the tool name is looked up among the registered tools
Resolve ==
    /\ phase = "RECEIVED"
    /\ IF req.tool \in Registry
       THEN /\ phase' = "RESOLVED"
            /\ trace' = Append(trace, "RESOLVED")
            /\ result' = result
       ELSE /\ phase' = "FAILED"
            /\ trace' = Append(trace, "FAILED")
            /\ result' = [kind |-> "raise", exc |-> "NotFoundError",
                          msg |-> "Unknown tool: " \o req.tool]
    /\ UNCHANGED <<req, bearer_token, posts, backend, outbox>>

\* one call of echo, from its validation to its return
EchoCall ==
    /\ phase = "RESOLVED"
    /\ req.tool = "echo"
    /\ \E outcome \in {echo(req.request, req.message, req.repeat)} :
          /\ result' = outcome
          /\ IF outcome.kind = "raise"
             THEN /\ phase' = "FAILED"
                  /\ trace' = Append(trace, "FAILED")
             ELSE /\ phase' = "EXECUTED"
                  /\ trace' = Append(Append(trace, "VALIDATED"), "EXECUTED")
    /\ UNCHANGED <<req, bearer_token, posts, backend, outbox>>

\* get_counts up to its await: it returns an error at once or posts the request
GetCountsBegin ==
    /\ phase = "RESOLVED"
    /\ req.tool = "get_counts"
    /\ \E start \in {GetCountsStart(req.request, req.args)} :
           IF start.returned
           THEN /\ result' = start.value
                /\ bearer_token' = start.bearer_token
                /\ phase' = "EXECUTED"
                /\ trace' = Append(Append(trace, "VALIDATED"), "EXECUTED")
                /\ posts' = posts
           ELSE /\ posts' = Append(posts, start.post)
                /\ bearer_token' = start.bearer_token
                /\ phase' = "AWAITING"
                /\ trace' = Append(trace, "VALIDATED")
                /\ result' = result
    /\ UNCHANGED <<req, backend, outbox>>

\* the backend answers the request in flight
BackendResponds ==
    /\ phase = "AWAITING"
    /\ \E status \in Statuses, text \in Bodies :
          /\ backend' = [kind |-> "response", status |-> status, text |-> text]
          /\ result' = GetCountsOnResponse(req.args, bearer_token, status, text)
    /\ posts' = PostsAfterAttempt(posts)
    /\ phase' = "EXECUTED"
    /\ trace' = Append(trace, "EXECUTED")
    /\ UNCHANGED <<req, bearer_token, outbox>>

\* the request in flight times out or fails in the transport
BackendFails ==
    /\ phase = "AWAITING"
    /\ \E fault \in BackendFaults :
          /\ backend' = [kind |-> "exception", cls |-> fault.cls, msg |-> fault.msg]
          /\ result' = GetCountsOnException(fault.cls, fault.msg)
    /\ posts' = PostsAfterAttempt(posts)
    /\ phase' = IF result'.kind = "raise" THEN "FAILED" ELSE "EXECUTED"
    /\ trace' = Append(trace, phase')
    /\ UNCHANGED <<req, bearer_token, outbox>>

\* the outcome of the handler goes back to the transport
Respond ==
    /\ phase \in {"EXECUTED", "FAILED"}
    /\ outbox' = Append(outbox, Serialize(result))
    /\ phase' = "RESPONDED"
    /\ trace' = Append(trace, "RESPONDED")
    /\ UNCHANGED <<req, bearer_token, result, posts, backend>>

\* the invocation is over: its request, its locals and its result are dropped
Release ==
    /\ phase = "RESPONDED"
    /\ phase' = "IDLE"
    /\ req' = NoRequest
    /\ bearer_token' = None
    /\ result' = NoResult
    /\ posts' = <<>>
    /\ backend' = NoBackend
    /\ trace' = <<>>
    /\ outbox' = <<>>

Next ==
    \/ Receive
    \/ Resolve
    \/ EchoCall
    \/ GetCountsBegin
    \/ BackendResponds
    \/ BackendFails
    \/ Respond
    \/ Release

Spec == Init /\ [][Next]_vars

\* every step but Receive is the server's own; the post is bounded by its
\* timeout, so the await ends
FairSpec ==
    /\ Spec
    /\ WF_vars(Resolve)
    /\ WF_vars(EchoCall)
    /\ WF_vars(GetCountsBegin)
    /\ WF_vars(BackendResponds \/ BackendFails)
    /\ WF_vars(Respond)

---------------------------------------------------------------------------
(* What the properties below read off a state *)

EchoDone == req.tool = "echo" /\ phase \in {"EXECUTED", "FAILED", "RESPONDED"}

EchoReturned == EchoDone /\ result.kind = "return"

GetCountsEntered ==
    req.tool = "get_counts" /\ phase \in {"AWAITING", "EXECUTED", "FAILED", "RESPONDED"}

GetCountsDone == req.tool = "get_counts" /\ phase \in {"EXECUTED", "FAILED", "RESPONDED"}

\* the positions of the authorization headers of an HTTP request
AuthPositions(request) ==
    {i \in 1..Len(request.headers) :
        Lower(request.headers[i].name) = "authorization"}

CarriesAuthorization(request) ==
    request.kind = "http" /\ AuthPositions(request) # {}

\* the value of the first authorization header of a request that carries one
InboundAuthorization(request) ==
    LET first == CHOOSE i \in AuthPositions(request) :
                    \A j \in AuthPositions(request) : i <= j
    IN  request.headers[first].value

\* a request whose metadata can be read and holds no authorization header
NoAuthorizationHeader(request) ==
    \/ request.kind \in {"none", "no_headers"}
    \/ request.kind = "http" /\ AuthPositions(request) = {}

ReadFault(request) == request.kind \in {"ctx_fault", "headers_fault"}

\* an error dictionary of get_counts: the key "error" and nothing else
IsErrorOnly(r) == r.kind = "return" /\ DOMAIN r = {"kind", "keys", "error"} /\ r.keys = {"error"}

---------------------------------------------------------------------------
(* The claims *)

\* C1: get_counts called with metadata that carries no authorization header
\* returns the error "No Bearer token found in request headers", and whenever
\* get_counts extracted no bearer token (none, or an empty one) it has issued
\* no POST to the backend and is not waiting for one.
C1_NoCredentialNoPost ==
    GetCountsEntered =>
        /\ ~Truthy(bearer_token) =>
              /\ posts = <<>>
              /\ backend = NoBackend
              /\ phase # "AWAITING"
              /\ IsErrorOnly(result)
        /\ NoAuthorizationHeader(req.request) =>
              /\ bearer_token = None
              /\ result = ErrorOnly("No Bearer token found in request headers")

C1_Witness ==
    /\ req.tool = "get_counts"
    /\ phase = "RESPONDED"
    /\ req.request = HttpRequest(<<OtherHeader>>)
    /\ posts = <<>>
    /\ outbox = <<Serialize(ErrorOnly("No Bearer token found in request headers"))>>

\* C2: every POST get_counts issues carries the Authorization header
\* "Bearer " followed by the token extracted in this invocation, which is the
\* value of the authorization header of this invocation's inbound request;
\* a POST is issued only for a request that carries such a header.
C2_RelaysCallerToken ==
    \A i \in 1..Len(posts) :
        /\ req.tool = "get_counts"
        /\ CarriesAuthorization(req.request)
        /\ bearer_token # None
        /\ posts[i].headers["Authorization"] = "Bearer " \o bearer_token[1]
        /\ posts[i].headers["Authorization"] = InboundAuthorization(req.request)

C2_Witness ==
    /\ phase = "AWAITING"
    /\ Len(posts) = 1
    /\ InboundAuthorization(req.request) = "Bearer tok-0123456789"
    /\ posts[1].headers["Authorization"] = "Bearer tok-0123456789"

\* the arguments echo accepts: a non-empty message and an integer repeat from
\* 1 to 10 (Python counts a bool among the integers)
EchoArgumentsValid ==
    /\ req.message # ""
    /\ req.repeat.kind \in {"int", "bool"}
    /\ 1 <= req.repeat.val
    /\ req.repeat.val <= 10

\* C3: echo returns its result exactly when the message is non-empty and
\* repeat is an integer from 1 to 10; otherwise, and so for the empty message
\* and for repeat 0 and 11, it raises a ValueError and returns nothing.
C3_EchoValidation ==
    EchoDone =>
        /\ result.kind = "return" <=> EchoArgumentsValid
        /\ ~EchoArgumentsValid =>
              /\ result.kind = "raise"
              /\ result.exc = "ValueError"
              /\ DOMAIN result = {"kind", "exc", "msg"}
              /\ phase = "RESPONDED" => outbox = <<[isError |-> TRUE, text |-> result.msg]>>

C3_Witness ==
    /\ EchoDone
    /\ req.message = "ab"
    /\ req.repeat = IntRepeat(11)
    /\ result.kind = "raise"

\* s is r copies of x, each followed by one newline but the last
IsJoinedCopies(s, x, r) ==
    /\ Len(s) = r * Len(x) + (r - 1)
    /\ \A i \in 0..(r - 1) :
          SubSeq(s, i * (Len(x) + 1) + 1, i * (Len(x) + 1) + Len(x)) = x
    /\ \A i \in 1..(r - 1) :
          SubSeq(s, i * (Len(x) + 1), i * (Len(x) + 1)) = "\n"

\* C4 as stated: the echo_message echo returns for a non-empty message x and
\* an integer r from 1 to 10 is r copies of x joined by newlines.
C4_EchoMessageIsCopies ==
    (EchoReturned /\ req.repeat.kind = "int") =>
        IsJoinedCopies(result.echo_message, req.message, req.repeat.val)

\* C4: the echo_message echo returns for a non-empty message x and an integer
\* r from 1 to 10 is the prefix "Echo (<r>x): " followed by r copies of x
\* joined by newlines, and the result names x as its original message.
C4_EchoMessagePrefixedCopies ==
    (EchoReturned /\ req.repeat.kind = "int") =>
        LET prefix == "Echo (" \o ToString(req.repeat.val) \o "x): "
        IN  /\ req.repeat.val \in 1..10
            /\ TakePrefix(result.echo_message, Len(prefix)) = prefix
            /\ IsJoinedCopies(DropPrefix(result.echo_message, Len(prefix)),
                              req.message, req.repeat.val)
            /\ result.original_message = req.message
            /\ result.repeat_count = req.repeat

C4_Witness ==
    /\ EchoReturned
    /\ req.message = "ab"
    /\ req.repeat = IntRepeat(3)
    /\ result.echo_message = "Echo (3x): ab\nab\nab"

\* the tokens the inbound requests of the model may carry
KnownTokens == {"", "abc123", "tok-0123456789", " abc123", NonBearerFormat}

\* the token echo or get_counts extracted, once it has returned
ExtractedToken == IF req.tool = "echo" THEN result.bearer_token ELSE bearer_token

ExtractionDone ==
    /\ CarriesAuthorization(req.request)
    /\ \/ EchoReturned
       \/ GetCountsEntered

\* C5: when the inbound request carries a header named authorization in any
\* letter case whose value is "Bearer " followed by t, echo and get_counts
\* extract exactly t as the token; a value whose prefix differs from "Bearer "
\* in case or spacing yields no such token.
C5_BearerTokenExtracted ==
    ExtractionDone =>
        /\ \A t \in KnownTokens :
              InboundAuthorization(req.request) = "Bearer " \o t
                  => ExtractedToken = Some(t)
        /\ InboundAuthorization(req.request) \in
                  {"bearer abc123", "BEARER abc123", "Bearerabc123"}
              => ExtractedToken \notin {Some(t) : t \in KnownTokens \ {NonBearerFormat}}

C5_Witness ==
    /\ EchoReturned
    /\ req.request = HttpRequest(<<OtherHeader, Header("AUTHORIZATION", "Bearer abc123")>>)
    /\ result.bearer_token = Some("abc123")
    /\ result.token_length = 6

\* C6 as stated: for a request whose authorization header does not start with
\* "Bearer ", echo reports the marker "Non-Bearer token format" with token
\* length 0; for a request without authorization header it reports no token,
\* token length 0 and the diagnostic "No Authorization header found".
C6_NonBearerOrAbsent ==
    EchoReturned =>
        /\ (CarriesAuthorization(req.request)
            /\ ~(\E t \in KnownTokens :
                    InboundAuthorization(req.request) = "Bearer " \o t))
              => /\ result.bearer_token = Some(NonBearerFormat)
                 /\ result.token_length = 0
                 /\ "non_bearer_format" \in result.debug_info
        /\ (req.request.kind = "http" /\ ~CarriesAuthorization(req.request))
              => /\ result.bearer_token = None
                 /\ result.token_length = 0
                 /\ result.full_header = Some(NoHeaderFound)
                 /\ "all_headers" \in result.debug_info

\* the bodies of the model that are JSON documents
JsonBodies == {"null", "[1,2]", "{}", "true", "17"}

FullResultKeys ==
    {"status_code", "success", "data", "error", "request_payload", "token_used"}

Answered == GetCountsDone /\ backend.kind = "response"

\* C7 as stated: a backend answer with status 200 gives a result that carries
\* the decoded body as data and no error; any other status gives a result
\* whose error is the raw body and that has no data.
C7_ResponseMapping ==
    Answered =>
        IF backend.status = 200
        THEN /\ result.keys = FullResultKeys
             /\ result.error = None
             /\ result.data = JsonDecode(backend.text).value
        ELSE /\ result.keys = FullResultKeys
             /\ result.error = Some(backend.text)
             /\ result.data = None

\* C7: a backend answer with status 200 whose body is a JSON document gives a
\* result that carries the decoded body as data and no error; status 200 with
\* a body that is no JSON document gives the error "Unexpected error: ..."
\* and no data; any other status gives a result whose error is the raw body
\* and that has no data.
C7_ResponseMappingDecodable ==
    Answered =>
        IF backend.status = 200 /\ backend.text \in JsonBodies
        THEN /\ result.keys = FullResultKeys
             /\ result.success
             /\ result.error = None
             /\ result.data = JsonDecode(backend.text).value
        ELSE IF backend.status = 200
        THEN /\ IsErrorOnly(result)
             /\ StartsWith(result.error[1], "Unexpected error: ")
        ELSE /\ result.keys = FullResultKeys
             /\ ~result.success
             /\ result.status_code = backend.status
             /\ result.error = Some(backend.text)
             /\ result.data = None

C7_Witness ==
    /\ Answered
    /\ backend.status = 500
    /\ backend.text = "boom"
    /\ result.error = Some("boom")
    /\ phase = "RESPONDED"

TimeoutFaults == {"ConnectTimeout", "ReadTimeout", "WriteTimeout", "PoolTimeout"}

TransportFaults ==
    {"ConnectError", "ReadError", "WriteError", "CloseError", "RemoteProtocolError",
     "LocalProtocolError", "ProxyError", "UnsupportedProtocol"}

TimeoutMessage == "Request timeout - API took too long to respond"

Faulted == GetCountsDone /\ backend.kind = "exception"

\* C8: a backend call that times out gives the error "Request timeout - API
\* took too long to respond", a transport fault gives the error "Request
\* failed: " followed by the message of the fault, and neither is reported as
\* the other.
C8_FailureMapping ==
    Faulted =>
        /\ IsErrorOnly(result)
        /\ backend.cls \in TimeoutFaults => result.error = Some(TimeoutMessage)
        /\ backend.cls \in TransportFaults
              => result.error = Some("Request failed: " \o backend.msg)
        /\ result.error = Some(TimeoutMessage) => backend.cls \in TimeoutFaults
        /\ StartsWith(result.error[1], "Request failed: ")
              => backend.cls \notin TimeoutFaults

C8_Witness ==
    /\ Faulted
    /\ backend.cls = "ReadTimeout"
    /\ result.error = Some(TimeoutMessage)
    /\ phase = "RESPONDED"

\* C10: one invocation of get_counts issues at most one POST; once the
\* attempt has ended, with an answer or with a fault, exactly one POST has
\* been issued and the handler has returned.
C10_SingleAttempt ==
    /\ Len(posts) <= 1
    /\ backend.kind # "none" =>
          /\ Len(posts) = 1
          /\ phase \in {"EXECUTED", "RESPONDED"}
          /\ result.kind = "return"

C10_Witness ==
    /\ backend.kind = "exception"
    /\ backend.cls = "ConnectError"
    /\ Len(posts) = 1
    /\ phase = "RESPONDED"

\* the orders in which one invocation may pass through the dispatch states
DispatchPaths ==
    {<<"RECEIVED", "RESOLVED", "VALIDATED", "EXECUTED", "RESPONDED">>,
     <<"RECEIVED", "FAILED", "RESPONDED">>,
     <<"RECEIVED", "RESOLVED", "FAILED", "RESPONDED">>,
     <<"RECEIVED", "RESOLVED", "VALIDATED", "FAILED", "RESPONDED">>}

IsPrefix(t, path) == Len(t) <= Len(path) /\ SubSeq(path, 1, Len(t)) = t

\* a result that reports an error: a raised exception, or a dictionary whose
\* error entry is set
IsErrorResult(r) ==
    \/ r.kind = "raise"
    \/ r.kind = "return" /\ "error" \in DOMAIN r /\ r.error # None

\* the dispatch order, the single result and the handlers' preconditions
DispatchInvariant ==
    /\ \E path \in DispatchPaths : IsPrefix(trace, path)
    /\ phase = "IDLE" <=> trace = <<>>
    /\ phase \notin {"IDLE", "AWAITING"} => phase = trace[Len(trace)]
    /\ phase = "AWAITING" => trace[Len(trace)] = "VALIDATED"
    /\ outbox = (IF phase = "RESPONDED" THEN <<Serialize(result)>> ELSE <<>>)
    /\ phase = "RESPONDED" => result.kind \in {"return", "raise"}
    /\ (\E i \in 1..Len(trace) : trace[i] = "VALIDATED") =>
          /\ req.tool \in {"echo", "get_counts"}
          /\ trace[2] = "RESOLVED"
          /\ req.tool = "echo" => EchoArgumentsValid
    /\ (phase \in {"FAILED", "RESPONDED"} /\ result.kind = "raise") =>
          /\ req.tool # "get_counts"
          /\ req.tool = "echo" => ~EchoArgumentsValid /\ result.exc = "ValueError"
          /\ phase = "RESPONDED" => outbox[1].isError /\ outbox[1].text = result.msg

\* a fault met while reading the request metadata ends in a result that
\* carries its message: the error of get_counts, a diagnostic entry of echo
MetadataFaultReported ==
    (ReadFault(req.request) /\ (EchoReturned \/ GetCountsDone)) =>
        IF req.tool = "get_counts"
        THEN result = ErrorOnly("Failed to extract bearer token: " \o req.request.err)
        ELSE /\ result.full_header = Some("Error accessing headers: " \o req.request.err)
             /\ result.bearer_token = None
             /\ "error" \in result.debug_info

\* a fault met while reading the request metadata ends in an error result
MetadataFaultIsError ==
    (ReadFault(req.request) /\ (EchoReturned \/ GetCountsDone)) => IsErrorResult(result)

\* a fault of the backend call ends in an error dictionary of get_counts
BackendFaultReported == Faulted => IsErrorOnly(result)

EveryInvocationResponds == (phase = "RECEIVED") ~> (phase = "RESPONDED")

====
